---------------------------- MODULE Spec2Model ----------------------------
(* Model of experiments/countdown-workflow/utils/download_utils.py:        *)
(* timestamp parsing, the download-range callback, the progress hook and   *)
(* the module-level cell that holds the downloaded file path.              *)
(*                                                                         *)
(* A Python str whose characters matter (a timestamp) is a sequence of     *)
(* code points; a str that is only stored and compared (a status, a        *)
(* filename) is a TLA+ string. None and str values are records tagged    *)
(* with their type, an int is an integer, a dict is a function on its keys.*)
(* The outcome of a call is a record that either returns a value or raises *)
(* an exception with a message.                                            *)
EXTENDS Integers, Sequences, FiniteSets, TLC

VARIABLES
    _downloaded_file_path_global,  \* the module-level Optional[str]
    log_records,                   \* filenames logged by logger.info, in order
    events,                        \* the dicts my_progress_hook was called with, in order
    hook_pc,                       \* per thread: where its my_progress_hook call stands
    hook_msg,                      \* per thread: the filename formatted into its log message
    call                           \* the operation that took the last step: name, argument, outcome

vars == <<_downloaded_file_path_global, log_records, events, hook_pc, hook_msg, call>>

----------------------------------------------------------------------------
(* Bounds *)

MaxEvents == 3        \* progress hook calls in one behaviour
MaxFields == 4        \* ':'-separated fields of a text given to parse_time_to_seconds
MaxRangeFields == 3   \* the same, for the texts given to download_ranges_callback

----------------------------------------------------------------------------
(* Python values and call outcomes *)

PyNone == [type |-> "NoneType"]
PyStr(s) == [type |-> "str", val |-> s]

Return(v) == [kind |-> "return", value |-> v]
Raise(exc, msg) == [kind |-> "raise", exc |-> exc, msg |-> msg]
\* The outcome of a call that has not returned yet.
Running == [kind |-> "running"]

\* An exception message is the tuple of its parts: fixed text, and the values
\* formatted into it.
MsgNotEnough(got) == <<"not enough values to unpack (expected 3, got ", got, ")">>
MsgTooMany == <<"too many values to unpack (expected 3)">>
MsgMissing ==
    <<"start_time and end_time must be provided in ydl.params for download_ranges_callback.">>
MsgExceedsLimit(digits) ==
    <<"Exceeds the limit (4300 digits) for integer string conversion: value has ", digits,
      " digits; use sys.set_int_max_str_digits() to increase the limit">>

----------------------------------------------------------------------------
(* Characters. A character is its Unicode code point. *)

\* The code point of the ASCII characters the texts below are written with.
Ord(c) ==
    CASE c = "0" -> 48 [] c = "1" -> 49 [] c = "2" -> 50 [] c = "3" -> 51 [] c = "4" -> 52
      [] c = "5" -> 53 [] c = "6" -> 54 [] c = "7" -> 55 [] c = "8" -> 56 [] c = "9" -> 57
      [] c = ":" -> 58 [] c = "+" -> 43 [] c = "-" -> 45 [] c = "_" -> 95 [] c = " " -> 32
      [] c = "\t" -> 9 [] c = "\n" -> 10
      [] c = "a" -> 97 [] c = "b" -> 98 [] c = "d" -> 100 [] c = "i" -> 105
      [] c = "n" -> 110 [] c = "p" -> 112 [] c = "t" -> 116 [] c = "u" -> 117

\* The str written with the characters cs.
Str(cs) == [i \in 1..Len(cs) |-> Ord(cs[i])]

\* The digit zero of every run of ten decimal digits (category Nd) of Unicode:
\* int() reads each of them as the digits 0..9.
DecimalZeros ==
    { 48, 1632, 1776, 1984, 2406, 2534, 2662, 2790, 2918, 3046, 3174, 3302, 3430,
      3558, 3664, 3792, 3872, 4160, 4240, 6112, 6160, 6470, 6608, 6784, 6800, 6992,
      7088, 7232, 7248, 42528, 43216, 43264, 43472, 43504, 43600, 44016, 65296,
      66720, 68912, 69734, 69872, 69942, 70096, 70384, 70736, 70864, 71248, 71360,
      71472, 71904, 72016, 72784, 73040, 73120, 92768, 92864, 93008, 120782, 120792,
      120802, 120812, 120822, 123200, 123632, 125264, 130032 }

IsDigit(c) == \E z \in DecimalZeros : z <= c /\ c <= z + 9

DigitValue(c) == c - (CHOOSE z \in DecimalZeros : z <= c /\ c <= z + 9)

\* The characters int() strips at both ends: the ASCII whitespace \t \n \v \f \r
\* and space, and the Unicode spaces.
Whitespace ==
    {9, 10, 11, 12, 13, 32, 133, 160, 5760} \cup (8192..8202)
        \cup {8232, 8233, 8239, 8287, 12288}

\* sys.get_int_max_str_digits(): int() refuses a literal of more digits.
MaxStrDigits == 4300

----------------------------------------------------------------------------
(* repr(str), as int() formats it into its error message *)

\* The ranges lo..hi of the code points from 128 on that str.isprintable()
\* rejects (categories Cc, Cf, Cs, Co, Cn, Zl, Zp, Zs): repr() escapes them.
NonPrintableRanges ==
    { <<128, 160>>, <<173, 173>>, <<888, 889>>, <<896, 899>>, <<907, 907>>,
      <<909, 909>>, <<930, 930>>, <<1328, 1328>>, <<1367, 1368>>,
      <<1419, 1420>>, <<1424, 1424>>, <<1480, 1487>>, <<1515, 1518>>,
      <<1525, 1541>>, <<1564, 1564>>, <<1757, 1757>>, <<1806, 1807>>,
      <<1867, 1868>>, <<1970, 1983>>, <<2043, 2044>>, <<2094, 2095>>,
      <<2111, 2111>>, <<2140, 2141>>, <<2143, 2143>>, <<2155, 2159>>,
      <<2191, 2199>>, <<2274, 2274>>, <<2436, 2436>>, <<2445, 2446>>,
      <<2449, 2450>>, <<2473, 2473>>, <<2481, 2481>>, <<2483, 2485>>,
      <<2490, 2491>>, <<2501, 2502>>, <<2505, 2506>>, <<2511, 2518>>,
      <<2520, 2523>>, <<2526, 2526>>, <<2532, 2533>>, <<2559, 2560>>,
      <<2564, 2564>>, <<2571, 2574>>, <<2577, 2578>>, <<2601, 2601>>,
      <<2609, 2609>>, <<2612, 2612>>, <<2615, 2615>>, <<2618, 2619>>,
      <<2621, 2621>>, <<2627, 2630>>, <<2633, 2634>>, <<2638, 2640>>,
      <<2642, 2648>>, <<2653, 2653>>, <<2655, 2661>>, <<2679, 2688>>,
      <<2692, 2692>>, <<2702, 2702>>, <<2706, 2706>>, <<2729, 2729>>,
      <<2737, 2737>>, <<2740, 2740>>, <<2746, 2747>>, <<2758, 2758>>,
      <<2762, 2762>>, <<2766, 2767>>, <<2769, 2783>>, <<2788, 2789>>,
      <<2802, 2808>>, <<2816, 2816>>, <<2820, 2820>>, <<2829, 2830>>,
      <<2833, 2834>>, <<2857, 2857>>, <<2865, 2865>>, <<2868, 2868>>,
      <<2874, 2875>>, <<2885, 2886>>, <<2889, 2890>>, <<2894, 2900>>,
      <<2904, 2907>>, <<2910, 2910>>, <<2916, 2917>>, <<2936, 2945>>,
      <<2948, 2948>>, <<2955, 2957>>, <<2961, 2961>>, <<2966, 2968>>,
      <<2971, 2971>>, <<2973, 2973>>, <<2976, 2978>>, <<2981, 2983>>,
      <<2987, 2989>>, <<3002, 3005>>, <<3011, 3013>>, <<3017, 3017>>,
      <<3022, 3023>>, <<3025, 3030>>, <<3032, 3045>>, <<3067, 3071>>,
      <<3085, 3085>>, <<3089, 3089>>, <<3113, 3113>>, <<3130, 3131>>,
      <<3141, 3141>>, <<3145, 3145>>, <<3150, 3156>>, <<3159, 3159>>,
      <<3163, 3164>>, <<3166, 3167>>, <<3172, 3173>>, <<3184, 3190>>,
      <<3213, 3213>>, <<3217, 3217>>, <<3241, 3241>>, <<3252, 3252>>,
      <<3258, 3259>>, <<3269, 3269>>, <<3273, 3273>>, <<3278, 3284>>,
      <<3287, 3292>>, <<3295, 3295>>, <<3300, 3301>>, <<3312, 3312>>,
      <<3315, 3327>>, <<3341, 3341>>, <<3345, 3345>>, <<3397, 3397>>,
      <<3401, 3401>>, <<3408, 3411>>, <<3428, 3429>>, <<3456, 3456>>,
      <<3460, 3460>>, <<3479, 3481>>, <<3506, 3506>>, <<3516, 3516>>,
      <<3518, 3519>>, <<3527, 3529>>, <<3531, 3534>>, <<3541, 3541>>,
      <<3543, 3543>>, <<3552, 3557>>, <<3568, 3569>>, <<3573, 3584>>,
      <<3643, 3646>>, <<3676, 3712>>, <<3715, 3715>>, <<3717, 3717>>,
      <<3723, 3723>>, <<3748, 3748>>, <<3750, 3750>>, <<3774, 3775>>,
      <<3781, 3781>>, <<3783, 3783>>, <<3790, 3791>>, <<3802, 3803>>,
      <<3808, 3839>>, <<3912, 3912>>, <<3949, 3952>>, <<3992, 3992>>,
      <<4029, 4029>>, <<4045, 4045>>, <<4059, 4095>>, <<4294, 4294>>,
      <<4296, 4300>>, <<4302, 4303>>, <<4681, 4681>>, <<4686, 4687>>,
      <<4695, 4695>>, <<4697, 4697>>, <<4702, 4703>>, <<4745, 4745>>,
      <<4750, 4751>>, <<4785, 4785>>, <<4790, 4791>>, <<4799, 4799>>,
      <<4801, 4801>>, <<4806, 4807>>, <<4823, 4823>>, <<4881, 4881>>,
      <<4886, 4887>>, <<4955, 4956>>, <<4989, 4991>>, <<5018, 5023>>,
      <<5110, 5111>>, <<5118, 5119>>, <<5760, 5760>>, <<5789, 5791>>,
      <<5881, 5887>>, <<5910, 5918>>, <<5943, 5951>>, <<5972, 5983>>,
      <<5997, 5997>>, <<6001, 6001>>, <<6004, 6015>>, <<6110, 6111>>,
      <<6122, 6127>>, <<6138, 6143>>, <<6158, 6158>>, <<6170, 6175>>,
      <<6265, 6271>>, <<6315, 6319>>, <<6390, 6399>>, <<6431, 6431>>,
      <<6444, 6447>>, <<6460, 6463>>, <<6465, 6467>>, <<6510, 6511>>,
      <<6517, 6527>>, <<6572, 6575>>, <<6602, 6607>>, <<6619, 6621>>,
      <<6684, 6685>>, <<6751, 6751>>, <<6781, 6782>>, <<6794, 6799>>,
      <<6810, 6815>>, <<6830, 6831>>, <<6863, 6911>>, <<6989, 6991>>,
      <<7039, 7039>>, <<7156, 7163>>, <<7224, 7226>>, <<7242, 7244>>,
      <<7305, 7311>>, <<7355, 7356>>, <<7368, 7375>>, <<7419, 7423>>,
      <<7958, 7959>>, <<7966, 7967>>, <<8006, 8007>>, <<8014, 8015>>,
      <<8024, 8024>>, <<8026, 8026>>, <<8028, 8028>>, <<8030, 8030>>,
      <<8062, 8063>>, <<8117, 8117>>, <<8133, 8133>>, <<8148, 8149>>,
      <<8156, 8156>>, <<8176, 8177>>, <<8181, 8181>>, <<8191, 8207>>,
      <<8232, 8239>>, <<8287, 8303>>, <<8306, 8307>>, <<8335, 8335>>,
      <<8349, 8351>>, <<8385, 8399>>, <<8433, 8447>>, <<8588, 8591>>,
      <<9255, 9279>>, <<9291, 9311>>, <<11124, 11125>>, <<11158, 11158>>,
      <<11508, 11512>>, <<11558, 11558>>, <<11560, 11564>>, <<11566, 11567>>,
      <<11624, 11630>>, <<11633, 11646>>, <<11671, 11679>>, <<11687, 11687>>,
      <<11695, 11695>>, <<11703, 11703>>, <<11711, 11711>>, <<11719, 11719>>,
      <<11727, 11727>>, <<11735, 11735>>, <<11743, 11743>>, <<11870, 11903>>,
      <<11930, 11930>>, <<12020, 12031>>, <<12246, 12271>>, <<12284, 12288>>,
      <<12352, 12352>>, <<12439, 12440>>, <<12544, 12548>>, <<12592, 12592>>,
      <<12687, 12687>>, <<12772, 12783>>, <<12831, 12831>>, <<42125, 42127>>,
      <<42183, 42191>>, <<42540, 42559>>, <<42744, 42751>>, <<42955, 42959>>,
      <<42962, 42962>>, <<42964, 42964>>, <<42970, 42993>>, <<43053, 43055>>,
      <<43066, 43071>>, <<43128, 43135>>, <<43206, 43213>>, <<43226, 43231>>,
      <<43348, 43358>>, <<43389, 43391>>, <<43470, 43470>>, <<43482, 43485>>,
      <<43519, 43519>>, <<43575, 43583>>, <<43598, 43599>>, <<43610, 43611>>,
      <<43715, 43738>>, <<43767, 43776>>, <<43783, 43784>>, <<43791, 43792>>,
      <<43799, 43807>>, <<43815, 43815>>, <<43823, 43823>>, <<43884, 43887>>,
      <<44014, 44015>>, <<44026, 44031>>, <<55204, 55215>>, <<55239, 55242>>,
      <<55292, 63743>>, <<64110, 64111>>, <<64218, 64255>>, <<64263, 64274>>,
      <<64280, 64284>>, <<64311, 64311>>, <<64317, 64317>>, <<64319, 64319>>,
      <<64322, 64322>>, <<64325, 64325>>, <<64451, 64466>>, <<64912, 64913>>,
      <<64968, 64974>>, <<64976, 65007>>, <<65050, 65055>>, <<65107, 65107>>,
      <<65127, 65127>>, <<65132, 65135>>, <<65141, 65141>>, <<65277, 65280>>,
      <<65471, 65473>>, <<65480, 65481>>, <<65488, 65489>>, <<65496, 65497>>,
      <<65501, 65503>>, <<65511, 65511>>, <<65519, 65531>>, <<65534, 65535>>,
      <<65548, 65548>>, <<65575, 65575>>, <<65595, 65595>>, <<65598, 65598>>,
      <<65614, 65615>>, <<65630, 65663>>, <<65787, 65791>>, <<65795, 65798>>,
      <<65844, 65846>>, <<65935, 65935>>, <<65949, 65951>>, <<65953, 65999>>,
      <<66046, 66175>>, <<66205, 66207>>, <<66257, 66271>>, <<66300, 66303>>,
      <<66340, 66348>>, <<66379, 66383>>, <<66427, 66431>>, <<66462, 66462>>,
      <<66500, 66503>>, <<66518, 66559>>, <<66718, 66719>>, <<66730, 66735>>,
      <<66772, 66775>>, <<66812, 66815>>, <<66856, 66863>>, <<66916, 66926>>,
      <<66939, 66939>>, <<66955, 66955>>, <<66963, 66963>>, <<66966, 66966>>,
      <<66978, 66978>>, <<66994, 66994>>, <<67002, 67002>>, <<67005, 67071>>,
      <<67383, 67391>>, <<67414, 67423>>, <<67432, 67455>>, <<67462, 67462>>,
      <<67505, 67505>>, <<67515, 67583>>, <<67590, 67591>>, <<67593, 67593>>,
      <<67638, 67638>>, <<67641, 67643>>, <<67645, 67646>>, <<67670, 67670>>,
      <<67743, 67750>>, <<67760, 67807>>, <<67827, 67827>>, <<67830, 67834>>,
      <<67868, 67870>>, <<67898, 67902>>, <<67904, 67967>>, <<68024, 68027>>,
      <<68048, 68049>>, <<68100, 68100>>, <<68103, 68107>>, <<68116, 68116>>,
      <<68120, 68120>>, <<68150, 68151>>, <<68155, 68158>>, <<68169, 68175>>,
      <<68185, 68191>>, <<68256, 68287>>, <<68327, 68330>>, <<68343, 68351>>,
      <<68406, 68408>>, <<68438, 68439>>, <<68467, 68471>>, <<68498, 68504>>,
      <<68509, 68520>>, <<68528, 68607>>, <<68681, 68735>>, <<68787, 68799>>,
      <<68851, 68857>>, <<68904, 68911>>, <<68922, 69215>>, <<69247, 69247>>,
      <<69290, 69290>>, <<69294, 69295>>, <<69298, 69375>>, <<69416, 69423>>,
      <<69466, 69487>>, <<69514, 69551>>, <<69580, 69599>>, <<69623, 69631>>,
      <<69710, 69713>>, <<69750, 69758>>, <<69821, 69821>>, <<69827, 69839>>,
      <<69865, 69871>>, <<69882, 69887>>, <<69941, 69941>>, <<69960, 69967>>,
      <<70007, 70015>>, <<70112, 70112>>, <<70133, 70143>>, <<70162, 70162>>,
      <<70207, 70271>>, <<70279, 70279>>, <<70281, 70281>>, <<70286, 70286>>,
      <<70302, 70302>>, <<70314, 70319>>, <<70379, 70383>>, <<70394, 70399>>,
      <<70404, 70404>>, <<70413, 70414>>, <<70417, 70418>>, <<70441, 70441>>,
      <<70449, 70449>>, <<70452, 70452>>, <<70458, 70458>>, <<70469, 70470>>,
      <<70473, 70474>>, <<70478, 70479>>, <<70481, 70486>>, <<70488, 70492>>,
      <<70500, 70501>>, <<70509, 70511>>, <<70517, 70655>>, <<70748, 70748>>,
      <<70754, 70783>>, <<70856, 70863>>, <<70874, 71039>>, <<71094, 71095>>,
      <<71134, 71167>>, <<71237, 71247>>, <<71258, 71263>>, <<71277, 71295>>,
      <<71354, 71359>>, <<71370, 71423>>, <<71451, 71452>>, <<71468, 71471>>,
      <<71495, 71679>>, <<71740, 71839>>, <<71923, 71934>>, <<71943, 71944>>,
      <<71946, 71947>>, <<71956, 71956>>, <<71959, 71959>>, <<71990, 71990>>,
      <<71993, 71994>>, <<72007, 72015>>, <<72026, 72095>>, <<72104, 72105>>,
      <<72152, 72153>>, <<72165, 72191>>, <<72264, 72271>>, <<72355, 72367>>,
      <<72441, 72703>>, <<72713, 72713>>, <<72759, 72759>>, <<72774, 72783>>,
      <<72813, 72815>>, <<72848, 72849>>, <<72872, 72872>>, <<72887, 72959>>,
      <<72967, 72967>>, <<72970, 72970>>, <<73015, 73017>>, <<73019, 73019>>,
      <<73022, 73022>>, <<73032, 73039>>, <<73050, 73055>>, <<73062, 73062>>,
      <<73065, 73065>>, <<73103, 73103>>, <<73106, 73106>>, <<73113, 73119>>,
      <<73130, 73439>>, <<73465, 73647>>, <<73649, 73663>>, <<73714, 73726>>,
      <<74650, 74751>>, <<74863, 74863>>, <<74869, 74879>>, <<75076, 77711>>,
      <<77811, 77823>>, <<78895, 82943>>, <<83527, 92159>>, <<92729, 92735>>,
      <<92767, 92767>>, <<92778, 92781>>, <<92863, 92863>>, <<92874, 92879>>,
      <<92910, 92911>>, <<92918, 92927>>, <<92998, 93007>>, <<93018, 93018>>,
      <<93026, 93026>>, <<93048, 93052>>, <<93072, 93759>>, <<93851, 93951>>,
      <<94027, 94030>>, <<94088, 94094>>, <<94112, 94175>>, <<94181, 94191>>,
      <<94194, 94207>>, <<100344, 100351>>, <<101590, 101631>>,
      <<101641, 110575>>, <<110580, 110580>>, <<110588, 110588>>,
      <<110591, 110591>>, <<110883, 110927>>, <<110931, 110947>>,
      <<110952, 110959>>, <<111356, 113663>>, <<113771, 113775>>,
      <<113789, 113791>>, <<113801, 113807>>, <<113818, 113819>>,
      <<113824, 118527>>, <<118574, 118575>>, <<118599, 118607>>,
      <<118724, 118783>>, <<119030, 119039>>, <<119079, 119080>>,
      <<119155, 119162>>, <<119275, 119295>>, <<119366, 119519>>,
      <<119540, 119551>>, <<119639, 119647>>, <<119673, 119807>>,
      <<119893, 119893>>, <<119965, 119965>>, <<119968, 119969>>,
      <<119971, 119972>>, <<119975, 119976>>, <<119981, 119981>>,
      <<119994, 119994>>, <<119996, 119996>>, <<120004, 120004>>,
      <<120070, 120070>>, <<120075, 120076>>, <<120085, 120085>>,
      <<120093, 120093>>, <<120122, 120122>>, <<120127, 120127>>,
      <<120133, 120133>>, <<120135, 120137>>, <<120145, 120145>>,
      <<120486, 120487>>, <<120780, 120781>>, <<121484, 121498>>,
      <<121504, 121504>>, <<121520, 122623>>, <<122655, 122879>>,
      <<122887, 122887>>, <<122905, 122906>>, <<122914, 122914>>,
      <<122917, 122917>>, <<122923, 123135>>, <<123181, 123183>>,
      <<123198, 123199>>, <<123210, 123213>>, <<123216, 123535>>,
      <<123567, 123583>>, <<123642, 123646>>, <<123648, 124895>>,
      <<124903, 124903>>, <<124908, 124908>>, <<124911, 124911>>,
      <<124927, 124927>>, <<125125, 125126>>, <<125143, 125183>>,
      <<125260, 125263>>, <<125274, 125277>>, <<125280, 126064>>,
      <<126133, 126208>>, <<126270, 126463>>, <<126468, 126468>>,
      <<126496, 126496>>, <<126499, 126499>>, <<126501, 126502>>,
      <<126504, 126504>>, <<126515, 126515>>, <<126520, 126520>>,
      <<126522, 126522>>, <<126524, 126529>>, <<126531, 126534>>,
      <<126536, 126536>>, <<126538, 126538>>, <<126540, 126540>>,
      <<126544, 126544>>, <<126547, 126547>>, <<126549, 126550>>,
      <<126552, 126552>>, <<126554, 126554>>, <<126556, 126556>>,
      <<126558, 126558>>, <<126560, 126560>>, <<126563, 126563>>,
      <<126565, 126566>>, <<126571, 126571>>, <<126579, 126579>>,
      <<126584, 126584>>, <<126589, 126589>>, <<126591, 126591>>,
      <<126602, 126602>>, <<126620, 126624>>, <<126628, 126628>>,
      <<126634, 126634>>, <<126652, 126703>>, <<126706, 126975>>,
      <<127020, 127023>>, <<127124, 127135>>, <<127151, 127152>>,
      <<127168, 127168>>, <<127184, 127184>>, <<127222, 127231>>,
      <<127406, 127461>>, <<127491, 127503>>, <<127548, 127551>>,
      <<127561, 127567>>, <<127570, 127583>>, <<127590, 127743>>,
      <<128728, 128732>>, <<128749, 128751>>, <<128765, 128767>>,
      <<128884, 128895>>, <<128985, 128991>>, <<129004, 129007>>,
      <<129009, 129023>>, <<129036, 129039>>, <<129096, 129103>>,
      <<129114, 129119>>, <<129160, 129167>>, <<129198, 129199>>,
      <<129202, 129279>>, <<129620, 129631>>, <<129646, 129647>>,
      <<129653, 129655>>, <<129661, 129663>>, <<129671, 129679>>,
      <<129709, 129711>>, <<129723, 129727>>, <<129734, 129743>>,
      <<129754, 129759>>, <<129768, 129775>>, <<129783, 129791>>,
      <<129939, 129939>>, <<129995, 130031>>, <<130042, 131071>>,
      <<173792, 173823>>, <<177977, 177983>>, <<178206, 178207>>,
      <<183970, 183983>>, <<191457, 194559>>, <<195102, 196607>>,
      <<201547, 917759>>, <<918000, 1114111>> }

NonPrintable(c) ==
    \/ c < 32
    \/ c = 127
    \/ c >= 128 /\ \E r \in NonPrintableRanges : r[1] <= c /\ c <= r[2]

\* The code point of the lower-case hexadecimal digit of value n.
HexDigit(n) == IF n < 10 THEN 48 + n ELSE 87 + n

\* n as w hexadecimal digits.
Hex(n, w) == [i \in 1..w |-> HexDigit((n \div (16 ^ (w - i))) % 16)]

\* repr() quotes with ' unless the str holds a ' and no ".
ReprQuote(s) ==
    IF (\E i \in 1..Len(s) : s[i] = 39) /\ ~(\E i \in 1..Len(s) : s[i] = 34)
    THEN 34 ELSE 39

\* One character of a repr quoted with q: the quote and the backslash take a
\* backslash, \t \n \r their letter, any other non-printable character its
\* \xNN, \uNNNN or \UNNNNNNNN escape.
ReprChar(c, q) ==
    IF c = q \/ c = 92 THEN <<92, c>>
    ELSE IF c = 9 THEN <<92, 116>>
    ELSE IF c = 10 THEN <<92, 110>>
    ELSE IF c = 13 THEN <<92, 114>>
    ELSE IF NonPrintable(c)
    THEN IF c < 256 THEN <<92, 120>> \o Hex(c, 2)
         ELSE IF c < 65536 THEN <<92, 117>> \o Hex(c, 4)
         ELSE <<92, 85>> \o Hex(c, 8)
    ELSE <<c>>

RECURSIVE ReprBody(_, _, _, _)
\* The characters lo..hi of s, each written as repr() writes it.
ReprBody(s, lo, hi, q) ==
    IF lo > hi THEN <<>>
    ELSE IF lo = hi THEN ReprChar(s[lo], q)
    ELSE LET mid == (lo + hi) \div 2
         IN  ReprBody(s, lo, mid, q) \o ReprBody(s, mid + 1, hi, q)

Repr(s) == <<ReprQuote(s)>> \o ReprBody(s, 1, Len(s), ReprQuote(s)) \o <<ReprQuote(s)>>

\* The precision of the format '%.200R' that int() writes its message with.
ReprPrecision == 200

\* The first n characters of r.
Prefix(r, n) == SubSeq(r, 1, IF Len(r) < n THEN Len(r) ELSE n)

\* "invalid literal for int() with base 10: %.200R": the repr of s, cut after
\* ReprPrecision characters.
MsgInvalidLiteral(s) ==
    <<"invalid literal for int() with base 10: ", Prefix(Repr(s), ReprPrecision)>>

----------------------------------------------------------------------------
(* str.split(':') and int(str) *)

\* time_str.split(':'): the fields between the colons, one more than there are
\* colons; "" gives one empty field. Field k runs from after colon k-1 (the
\* start of s for k = 1) to before colon k (the end of s for the last field).
Split(s) ==
    LET colons == { i \in 1..Len(s) : s[i] = Ord(":") }
        colon(k) ==
            IF k = 0 THEN 0
            ELSE IF k > Cardinality(colons) THEN Len(s) + 1
            ELSE CHOOSE i \in colons : Cardinality({ j \in colons : j < i }) = k - 1
    IN  [k \in 1..(Cardinality(colons) + 1) |-> SubSeq(s, colon(k - 1) + 1, colon(k) - 1)]

\* s without the whitespace at its ends.
Strip(s) ==
    LET kept == { i \in 1..Len(s) : s[i] \notin Whitespace }
    IN  IF kept = {} THEN <<>>
        ELSE SubSeq(s, CHOOSE i \in kept : \A j \in kept : i <= j,
                       CHOOSE i \in kept : \A j \in kept : j <= i)

\* The text int() reads after the surrounding whitespace and one optional sign.
Unsigned(s) ==
    LET t == Strip(s)
    IN  IF t # <<>> /\ Head(t) \in {Ord("+"), Ord("-")} THEN Tail(t) ELSE t

Negative(s) == LET t == Strip(s) IN t # <<>> /\ Head(t) = Ord("-")

\* The longest prefix of u made of digits and underscores: what int() scans.
DigitRun(u) ==
    LET other == { i \in 1..Len(u) : ~(IsDigit(u[i]) \/ u[i] = Ord("_")) }
    IN  IF other = {} THEN u
        ELSE SubSeq(u, 1, (CHOOSE i \in other : \A j \in other : i <= j) - 1)

\* A scanned run is a number when it starts and ends with a digit and no two
\* underscores are adjacent.
ValidRun(r) ==
    /\ r # <<>>
    /\ IsDigit(r[1])
    /\ IsDigit(r[Len(r)])
    /\ \A i \in 1..(Len(r) - 1) : ~(r[i] = Ord("_") /\ r[i + 1] = Ord("_"))

DigitCount(r) == Cardinality({ i \in 1..Len(r) : IsDigit(r[i]) })

\* s has the syntax of an int() literal: surrounding whitespace, an optional
\* sign, digits with single underscores between them, and nothing else.
IsIntLiteral(s) == ValidRun(DigitRun(Unsigned(s))) /\ DigitRun(Unsigned(s)) = Unsigned(s)

\* int(s) returns a value: s is a literal of no more than MaxStrDigits digits.
IntAccepts(s) == IsIntLiteral(s) /\ DigitCount(Unsigned(s)) <= MaxStrDigits

RECURSIVE Magnitude(_, _)
\* Base-10 value of the digits of u, read left to right from acc; underscores skipped.
Magnitude(u, acc) ==
    IF u = <<>> THEN acc
    ELSE IF Head(u) = Ord("_") THEN Magnitude(Tail(u), acc)
    ELSE Magnitude(Tail(u), acc * 10 + DigitValue(Head(u)))

IntValue(s) == IF Negative(s) THEN 0 - Magnitude(Unsigned(s), 0) ELSE Magnitude(Unsigned(s), 0)

\* int(s) for a str s: the run of digits is scanned, then its length is checked,
\* then whatever follows the run is rejected.
py_int(s) ==
    LET u == Unsigned(s)
        r == DigitRun(u)
    IN  IF ~ValidRun(r) THEN Raise("ValueError", MsgInvalidLiteral(s))
        ELSE IF DigitCount(r) > MaxStrDigits
        THEN Raise("ValueError", MsgExceedsLimit(DigitCount(r)))
        ELSE IF r # u THEN Raise("ValueError", MsgInvalidLiteral(s))
        ELSE Return(IntValue(s))

----------------------------------------------------------------------------
(* parse_time_to_seconds *)

RECURSIVE Unpack3_ignore_extra(_, _, _)
\* Variant: the first three fields are taken and any further field is ignored.
Unpack3_ignore_extra(parts, i, acc) ==
    IF i <= 3
    THEN IF i > Len(parts)
         THEN Raise("ValueError", MsgNotEnough(i - 1))
         ELSE LET r == py_int(parts[i])
              IN  IF r.kind = "raise" THEN r
                  ELSE Unpack3_ignore_extra(parts, i + 1, Append(acc, r.value))
    ELSE Return(acc)

RECURSIVE Unpack3(_, _, _)
\* h, m, s = map(int, parts): map is lazy, so int() runs on one field at a time,
\* and after the third value the unpacking asks for a fourth to see that none is left.
Unpack3(parts, i, acc) ==
    IF i <= 3
    THEN IF i > Len(parts)
         THEN Raise("ValueError", MsgNotEnough(i - 1))
         ELSE LET r == py_int(parts[i])
              IN  IF r.kind = "raise" THEN r ELSE Unpack3(parts, i + 1, Append(acc, r.value))
    ELSE IF Len(parts) >= i
         THEN LET r == py_int(parts[i])
              IN  IF r.kind = "raise" THEN r ELSE Raise("ValueError", MsgTooMany)
         ELSE Return(acc)

\* Variant: the hours are weighted like minutes.
parse_time_to_seconds_hours_as_minutes(time_str) ==
    LET u == Unpack3(Split(time_str), 1, <<>>)
    IN  IF u.kind = "raise" THEN u
        ELSE Return(u.value[1] * 60 + u.value[2] * 60 + u.value[3])

parse_time_to_seconds(time_str) ==
    LET u == Unpack3(Split(time_str), 1, <<>>)
    IN  IF u.kind = "raise" THEN u
        ELSE Return(u.value[1] * 3600 + u.value[2] * 60 + u.value[3])

----------------------------------------------------------------------------
(* dict access *)

\* d.get(k): the value at k, None when the key is absent.
DictGet(d, k) == IF k \in DOMAIN d THEN d[k] ELSE PyNone

\* not v, for v None or a str.
Falsy(v) == v = PyNone \/ (v.type = "str" /\ v.val = <<>>)

----------------------------------------------------------------------------
(* download_ranges_callback: params is ydl.params; info_dict is not read. *)

\* Variant: the error is raised only when both timestamps are missing.
download_ranges_callback_and(params) ==
    LET start_time == DictGet(params, "start_time")
        end_time == DictGet(params, "end_time")
    IN  IF Falsy(start_time) /\ Falsy(end_time)
        THEN Raise("ValueError", MsgMissing)
        ELSE IF Falsy(start_time) \/ Falsy(end_time)
        THEN Return(<<>>)
        ELSE LET start_seconds == parse_time_to_seconds(start_time.val)
             IN  IF start_seconds.kind = "raise" THEN start_seconds
                 ELSE LET end_seconds == parse_time_to_seconds(end_time.val)
                      IN  IF end_seconds.kind = "raise" THEN end_seconds
                          ELSE Return(<< [start_time |-> start_seconds.value,
                                          end_time |-> end_seconds.value] >>)

\* Variant: the two parsed values are stored under each other's key.
download_ranges_callback_swapped(params) ==
    LET start_time == DictGet(params, "start_time")
        end_time == DictGet(params, "end_time")
    IN  IF Falsy(start_time) \/ Falsy(end_time)
        THEN Raise("ValueError", MsgMissing)
        ELSE LET start_seconds == parse_time_to_seconds(start_time.val)
             IN  IF start_seconds.kind = "raise" THEN start_seconds
                 ELSE LET end_seconds == parse_time_to_seconds(end_time.val)
                      IN  IF end_seconds.kind = "raise" THEN end_seconds
                          ELSE Return(<< [start_time |-> end_seconds.value,
                                          end_time |-> start_seconds.value] >>)

\* Variant: end_time is parsed before start_time.
download_ranges_callback_end_first(params) ==
    LET start_time == DictGet(params, "start_time")
        end_time == DictGet(params, "end_time")
    IN  IF Falsy(start_time) \/ Falsy(end_time)
        THEN Raise("ValueError", MsgMissing)
        ELSE LET end_seconds == parse_time_to_seconds(end_time.val)
             IN  IF end_seconds.kind = "raise" THEN end_seconds
                 ELSE LET start_seconds == parse_time_to_seconds(start_time.val)
                      IN  IF start_seconds.kind = "raise" THEN start_seconds
                          ELSE Return(<< [start_time |-> start_seconds.value,
                                          end_time |-> end_seconds.value] >>)

download_ranges_callback(params) ==
    LET start_time == DictGet(params, "start_time")
        end_time == DictGet(params, "end_time")
    IN  IF Falsy(start_time) \/ Falsy(end_time)
        THEN Raise("ValueError", MsgMissing)
        ELSE LET start_seconds == parse_time_to_seconds(start_time.val)
             IN  IF start_seconds.kind = "raise" THEN start_seconds
                 ELSE LET end_seconds == parse_time_to_seconds(end_time.val)
                      IN  IF end_seconds.kind = "raise" THEN end_seconds
                          ELSE Return(<< [start_time |-> start_seconds.value,
                                          end_time |-> end_seconds.value] >>)

----------------------------------------------------------------------------
(* my_progress_hook and get_downloaded_filepath *)

\* Variant: the filename is stored only while the global is still None.
my_progress_hook_first_wins(d, g) ==
    IF d["status"] = PyStr("finished") /\ g = PyNone
    THEN [global |-> d["filename"], pc |-> "format", ret |-> Running]
    ELSE [global |-> g, pc |-> "idle", ret |-> Return(PyNone)]

\* Variant: the filename is stored whatever the status is.
my_progress_hook_any_status(d, g) ==
    IF "filename" \in DOMAIN d
    THEN [global |-> d["filename"], pc |-> "format", ret |-> Running]
    ELSE [global |-> g, pc |-> "idle", ret |-> Return(PyNone)]

\* Variant: a "downloading" event stores its filename too.
my_progress_hook_downloading_too(d, g) ==
    IF d["status"] \in {PyStr("finished"), PyStr("downloading")}
    THEN [global |-> d["filename"], pc |-> "format", ret |-> Running]
    ELSE [global |-> g, pc |-> "idle", ret |-> Return(PyNone)]

\* Variant: an event that is not "finished" resets the global to None.
my_progress_hook_reset(d, g) ==
    IF d["status"] = PyStr("finished")
    THEN [global |-> d["filename"], pc |-> "format", ret |-> Running]
    ELSE [global |-> PyNone, pc |-> "idle", ret |-> Return(PyNone)]

\* Lines 37-38 of the hook, called with dict d while the global holds g: the
\* global afterwards, where the call stands ("format": line 39 is still to run;
\* "idle": the call is over) and the call's outcome so far.
my_progress_hook(d, g) ==
    IF "status" \notin DOMAIN d
    THEN [global |-> g, pc |-> "idle", ret |-> Raise("KeyError", <<"'status'">>)]
    ELSE IF d["status"] = PyStr("finished")
    THEN IF "filename" \notin DOMAIN d
         THEN [global |-> g, pc |-> "idle", ret |-> Raise("KeyError", <<"'filename'">>)]
         ELSE [global |-> d["filename"], pc |-> "format", ret |-> Running]
    ELSE [global |-> g, pc |-> "idle", ret |-> Return(PyNone)]

\* The value get_downloaded_filepath returns while the global holds g.
get_downloaded_filepath(g) == g

----------------------------------------------------------------------------
(* Inputs *)

Join(fs) ==
    LET RECURSIVE J(_)
        J(i) == IF i > Len(fs) THEN <<>>
                ELSE IF i = 1 THEN fs[1] \o J(2)
                ELSE <<Ord(":")>> \o fs[i] \o J(i + 1)
    IN  J(1)

\* Every text of 1..n fields drawn from F.
TextsOver(F, n) == { Join(fs) : fs \in UNION { [1..k -> F] : k \in 1..n } }

T_010203 == Str(<<"0", "1", ":", "0", "2", ":", "0", "3">>)
T_000000 == Str(<<"0", "0", ":", "0", "0", ":", "0", "0">>)
T_000010 == Str(<<"0", "0", ":", "0", "0", ":", "1", "0">>)
T_000100 == Str(<<"0", "0", ":", "0", "1", ":", "0", "0">>)
T_bad_input == Str(<<"b", "a", "d", ":", "i", "n", "p", "u", "t">>)
T_input_bad == Str(<<"i", "n", "p", "u", "t", ":", "b", "a", "d">>)
T_10 == Str(<<"1", "0">>)
T_neg_hour == Str(<<"-", "1", ":", "0", "0", ":", "0", "0">>)
T_neg_sec == Str(<<"0", "0", ":", "0", "0", ":", "-", "5">>)
\* "00:00:10\n", a timestamp read as a line of a file.
T_000010_newline == Str(<<"0", "0", ":", "0", "0", ":", "1", "0", "\n">>)

\* 199 letters "b" and one more letter: two fields that differ only after the
\* part of their repr that int() writes into its message.
T_long_a == [i \in 1..199 |-> Ord("b")] \o Str(<<"a">>)
T_long_d == [i \in 1..199 |-> Ord("b")] \o Str(<<"d">>)

\* ARABIC-INDIC DIGIT THREE, a decimal digit outside ASCII.
ArabicIndicThree == <<1635>>

\* " 5:1_0:+1": a space, an underscore and a plus sign, which int() accepts.
T_space_underscore_plus == Str(<<" ", "5", ":", "1", "_", "0", ":", "+", "1">>)

FieldSet ==
    { Str(<<>>), Str(<<"0", "0">>), Str(<<"1", "0">>), Str(<<"-", "1">>),
      Str(<<"\t", "5", "\n">>), ArabicIndicThree, Str(<<"b", "a", "d">>) }

Texts ==
    TextsOver(FieldSet, MaxFields)
        \cup {T_010203, T_bad_input, T_input_bad, T_space_underscore_plus, T_long_a}

RangeFieldSet == { Str(<<"0", "0">>), Str(<<"0", "1">>), Str(<<"1", "0">>) }

RangeTexts ==
    TextsOver(RangeFieldSet, MaxRangeFields)
        \cup {T_bad_input, T_input_bad, T_neg_hour, T_neg_sec, T_000010_newline,
              T_long_a, T_long_d}

\* ydl.params restricted to the two keys the callback reads; either may be absent.
ParamsOver(V) ==
    UNION { [K -> V] : K \in SUBSET {"start_time", "end_time"} }

Params == ParamsOver({PyStr(<<>>)} \cup { PyStr(t) : t \in RangeTexts })

CallTexts == {T_bad_input}

CallParams == {[start_time |-> PyStr(T_000010)], [start_time |-> PyStr(T_000010), end_time |-> PyStr(T_000100)]}

Filenames == {"out.mp4", "clip.webm"}

Event(status, filename) == [status |-> PyStr(status), filename |-> PyStr(filename)]
EventNoFile(status) == [status |-> PyStr(status)]

\* The dicts the downloader hands to the hook: a finished event always carries
\* its filename.
HookEvents ==
    { Event("finished", f) : f \in Filenames }
        \cup {Event("downloading", "clip.webm"), EventNoFile("error")}

\* The threads the downloader may call the hook from, one call at a time each.
Threads == {"A", "B"}

----------------------------------------------------------------------------
(* State machine *)

NoCall == [op |-> "none"]
Input(arg) == [op |-> "input", arg |-> arg]

Init ==
    /\ _downloaded_file_path_global = PyNone
    /\ log_records = <<>>
    /\ events = <<>>
    /\ hook_pc = [t \in Threads |-> "idle"]
    /\ hook_msg = [t \in Threads |-> PyNone]
    /\ call = NoCall

\* A call of parse_time_to_seconds.
ParseCall(time_str) ==
    /\ call' = [op |-> "parse_time_to_seconds", arg |-> time_str,
                ret |-> parse_time_to_seconds(time_str)]
    /\ UNCHANGED <<_downloaded_file_path_global, log_records, events, hook_pc, hook_msg>>

\* The downloader calls download_ranges_callback with its params.
RangeCall(params) ==
    /\ call' = [op |-> "download_ranges_callback", arg |-> params,
                ret |-> download_ranges_callback(params)]
    /\ UNCHANGED <<_downloaded_file_path_global, log_records, events, hook_pc, hook_msg>>

\* Thread t calls my_progress_hook with event d and runs lines 37-38: the test
\* reads only the call's own dict, so test and store are one step. An event that
\* is not "finished" ends the call here.
HookCall(t, d) ==
    /\ hook_pc[t] = "idle"
    /\ Len(events) < MaxEvents
    /\ LET o == my_progress_hook(d, _downloaded_file_path_global)
       IN  /\ _downloaded_file_path_global' = o.global
           /\ hook_pc' = [hook_pc EXCEPT ![t] = o.pc]
           /\ call' = [op |-> "my_progress_hook", arg |-> d, ret |-> o.ret]
    /\ events' = Append(events, d)
    /\ UNCHANGED <<log_records, hook_msg>>

\* Line 39, first half: the f-string reads the global again, which another
\* thread may have overwritten since line 38.
HookFormat(t) ==
    /\ hook_pc[t] = "format"
    /\ hook_msg' = [hook_msg EXCEPT ![t] = _downloaded_file_path_global]
    /\ hook_pc' = [hook_pc EXCEPT ![t] = "emit"]
    /\ call' = [op |-> "my_progress_hook", arg |-> <<>>, ret |-> Running]
    /\ UNCHANGED <<_downloaded_file_path_global, log_records, events>>

\* Line 39, second half: logger.info emits the record and the hook returns.
HookEmit(t) ==
    /\ hook_pc[t] = "emit"
    /\ log_records' = Append(log_records, hook_msg[t])
    /\ hook_msg' = [hook_msg EXCEPT ![t] = PyNone]
    /\ hook_pc' = [hook_pc EXCEPT ![t] = "idle"]
    /\ call' = [op |-> "my_progress_hook", arg |-> <<>>, ret |-> Return(PyNone)]
    /\ UNCHANGED <<_downloaded_file_path_global, events>>

\* A call of get_downloaded_filepath.
GetCall ==
    /\ call' = [op |-> "get_downloaded_filepath", arg |-> <<>>,
                ret |-> Return(get_downloaded_filepath(_downloaded_file_path_global))]
    /\ UNCHANGED <<_downloaded_file_path_global, log_records, events, hook_pc, hook_msg>>

Next ==
    \/ \E t \in Threads : \E d \in HookEvents : HookCall(t, d)
    \/ \E t \in Threads : HookFormat(t)
    \/ \E t \in Threads : HookEmit(t)
    \/ GetCall
    \/ \E t \in CallTexts : ParseCall(t)
    \/ \E p \in CallParams : RangeCall(p)

Spec == Init /\ [][Next]_vars

\* parse_time_to_seconds alone, applied to one text drawn at the start.
InitParse ==
    /\ _downloaded_file_path_global = PyNone
    /\ log_records = <<>>
    /\ events = <<>>
    /\ hook_pc = [t \in Threads |-> "idle"]
    /\ hook_msg = [t \in Threads |-> PyNone]
    /\ call \in { Input(t) : t \in Texts }

NextParse == call.op = "input" /\ ParseCall(call.arg)

SpecParse == InitParse /\ [][NextParse]_vars

\* download_ranges_callback alone, applied to one params dict drawn at the start.
InitRange ==
    /\ _downloaded_file_path_global = PyNone
    /\ log_records = <<>>
    /\ events = <<>>
    /\ hook_pc = [t \in Threads |-> "idle"]
    /\ hook_msg = [t \in Threads |-> PyNone]
    /\ call \in { Input(p) : p \in Params }

NextRange == call.op = "input" /\ RangeCall(call.arg)

SpecRange == InitRange /\ [][NextRange]_vars

----------------------------------------------------------------------------
(* Properties *)

\* The positions in es of the events whose status is "finished".
FinishedIdx(es) == { i \in 1..Len(es) : es[i]["status"] = PyStr("finished") }

LastFinishedIdx(es) == CHOOSE i \in FinishedIdx(es) : \A j \in FinishedIdx(es) : j <= i

NonEmptyPath(v) == v # PyNone /\ v.type = "str" /\ v.val # ""

\* Three ':'-separated fields, each of them an integer for int().
WellFormed(t) == Len(Split(t)) = 3 /\ \A i \in 1..3 : IntAccepts(Split(t)[i])

Missing(params, k) == k \notin DOMAIN params \/ params[k] = PyStr(<<>>)

IsParse == call.op = "parse_time_to_seconds"
IsRange == call.op = "download_ranges_callback"
IsGet == call.op = "get_downloaded_filepath"
IsHook == call.op = "my_progress_hook"
\* The call raised a ValueError other than the "must be provided" one.
IsFormatError ==
    /\ call.ret.kind = "raise"
    /\ call.ret.exc = "ValueError"
    /\ call.ret.msg # MsgMissing

\* C1: after any sequence of hook events, interleaved with the other operations,
\* get_downloaded_filepath returns the filename of the most recent event whose
\* status is "finished" (a later finished event overwrites an earlier one).
C1_LastFinishedWins ==
    FinishedIdx(events) # {} =>
        LET last == events[LastFinishedIdx(events)]["filename"]
        IN  /\ get_downloaded_filepath(_downloaded_file_path_global) = last
            /\ IsGet => call.ret = Return(last)

\* Two hook calls on two threads, both still before their return, stored
\* different filenames, and get_downloaded_filepath then returned the later one.
C1_Witness ==
    /\ IsGet
    /\ \A t \in Threads : hook_pc[t] # "idle"
    /\ \E i, j \in FinishedIdx(events) :
        /\ i < j
        /\ j = LastFinishedIdx(events)
        /\ events[i]["filename"] # events[j]["filename"]
        /\ call.ret = Return(events[j]["filename"])

\* C2: the global is None at the start, and get_downloaded_filepath returns None
\* in every state reached without a "finished" event, whatever else has run.
C2_NoneUntilFinished ==
    FinishedIdx(events) = {} =>
        /\ _downloaded_file_path_global = PyNone
        /\ IsGet => call.ret = Return(PyNone)

\* Events that carry a filename but are not "finished" were processed, and
\* get_downloaded_filepath then returned None.
C2_Witness ==
    /\ IsGet
    /\ call.ret = Return(PyNone)
    /\ FinishedIdx(events) = {}
    /\ \E i \in 1..Len(events) : "filename" \in DOMAIN events[i]

\* C3: for a text of exactly three integer fields parse_time_to_seconds returns
\* hours*3600 + minutes*60 + seconds; "01:02:03" gives 3723, "00:00:00" gives 0.
C3_ParseValue ==
    IsParse =>
        /\ WellFormed(call.arg) =>
             LET f == Split(call.arg)
             IN  call.ret = Return(IntValue(f[1]) * 3600 + IntValue(f[2]) * 60 + IntValue(f[3]))
        /\ call.arg = T_010203 => call.ret = Return(3723)
        /\ call.arg = T_000000 => call.ret = Return(0)

C3_Witness == IsParse /\ call.arg = T_010203 /\ call.ret = Return(3723)

\* C4: parse_time_to_seconds raises ValueError, and returns nothing, for every
\* text that is not exactly three integer fields: fewer fields, more fields, or
\* a field that is no integer.
C4_ParseRejects ==
    (IsParse /\ ~WellFormed(call.arg)) => IsFormatError

C4_Witness ==
    /\ IsParse
    /\ call.arg = T_bad_input
    /\ call.ret = Raise("ValueError", MsgInvalidLiteral(Str(<<"b", "a", "d">>)))

\* C5: download_ranges_callback raises the "must be provided" ValueError whenever
\* start_time or end_time is absent or the empty string, and returns no range.
C5_MissingRaises ==
    (IsRange /\ (Missing(call.arg, "start_time") \/ Missing(call.arg, "end_time"))) =>
        call.ret = Raise("ValueError", MsgMissing)

\* Only start_time is absent; end_time is a well-formed timestamp.
C5_Witness ==
    /\ IsRange
    /\ DOMAIN call.arg = {"end_time"}
    /\ WellFormed(call.arg["end_time"].val)
    /\ call.ret = Raise("ValueError", MsgMissing)

\* C6: with both timestamps present, non-empty and well-formed the callback
\* returns exactly one range, start and end being the parsed start_time and
\* end_time; "00:00:10" and "00:01:00" give [{start: 10, end: 60}].
C6_RangeValue ==
    IsRange =>
        /\ ( /\ ~Missing(call.arg, "start_time")
             /\ ~Missing(call.arg, "end_time")
             /\ WellFormed(call.arg["start_time"].val)
             /\ WellFormed(call.arg["end_time"].val) ) =>
                /\ call.ret.kind = "return"
                /\ Len(call.ret.value) = 1
                /\ Return(call.ret.value[1].start_time)
                     = parse_time_to_seconds(call.arg["start_time"].val)
                /\ Return(call.ret.value[1].end_time)
                     = parse_time_to_seconds(call.arg["end_time"].val)
        /\ call.arg = [start_time |-> PyStr(T_000010), end_time |-> PyStr(T_000100)] =>
                call.ret = Return(<< [start_time |-> 10, end_time |-> 60] >>)

C6_Witness ==
    /\ IsRange
    /\ call.arg = [start_time |-> PyStr(T_000010), end_time |-> PyStr(T_000100)]
    /\ call.ret = Return(<< [start_time |-> 10, end_time |-> 60] >>)

\* C7: every range the callback returns has a non-negative start, also for
\* timestamps whose fields carry a sign.
C7_StartNonNegative ==
    (IsRange /\ call.ret.kind = "return") =>
        \A i \in 1..Len(call.ret.value) : call.ret.value[i].start_time >= 0

\* C8: the global changes only in a my_progress_hook step whose event status is
\* "finished"; a hook step with another status, get_downloaded_filepath,
\* parse_time_to_seconds and download_ranges_callback leave it unchanged.
C8_OnlyFinishedWrites ==
    [][ (_downloaded_file_path_global' # _downloaded_file_path_global) =>
            /\ call'.op = "my_progress_hook"
            /\ Len(events') = Len(events) + 1
            /\ events' = Append(events, call'.arg)
            /\ call'.arg["status"] = PyStr("finished") ]_vars

\* A path is stored and the last hook event, not "finished", named another file.
C8_Witness ==
    /\ IsHook
    /\ "status" \in DOMAIN call.arg
    /\ call.arg["status"] # PyStr("finished")
    /\ "filename" \in DOMAIN call.arg
    /\ NonEmptyPath(_downloaded_file_path_global)
    /\ call.arg["filename"] # _downloaded_file_path_global

\* C9: the global is never cleared: once a "finished" event with a filename has
\* been processed, it holds a non-empty path in every later state.
C9_NeverCleared ==
    [][ /\ FinishedIdx(events') # {} => NonEmptyPath(_downloaded_file_path_global')
        /\ NonEmptyPath(_downloaded_file_path_global)
             => NonEmptyPath(_downloaded_file_path_global') ]_vars

\* After a finished event, the events of a new download were processed and the
\* path of the first is still stored.
C9_Witness ==
    /\ \E i \in FinishedIdx(events) :
         \E j \in (i + 1)..Len(events) :
            /\ events[j]["status"] = PyStr("downloading")
            /\ events[j]["filename"] # events[i]["filename"]
    /\ NonEmptyPath(_downloaded_file_path_global)

\* C10: the presence check precedes all parsing and start_time is parsed before
\* end_time: a missing timestamp next to a malformed one gives the "must be
\* provided" error; two present timestamps of which one is malformed give the
\* parsing error of the first malformed one, and no range.
C10_ErrorOrder ==
    IsRange =>
        LET p == call.arg
            m1 == Missing(p, "start_time")
            m2 == Missing(p, "end_time")
        IN  /\ ((m1 /\ ~m2 /\ ~WellFormed(p["end_time"].val))
                  \/ (m2 /\ ~m1 /\ ~WellFormed(p["start_time"].val)))
                    => call.ret = Raise("ValueError", MsgMissing)
            /\ (~m1 /\ ~m2 /\ ~WellFormed(p["start_time"].val))
                    => /\ call.ret = parse_time_to_seconds(p["start_time"].val)
                       /\ call.ret.kind = "raise"
                       /\ call.ret.msg # MsgMissing
            /\ (~m1 /\ ~m2 /\ WellFormed(p["start_time"].val)
                  /\ ~WellFormed(p["end_time"].val))
                    => /\ call.ret = parse_time_to_seconds(p["end_time"].val)
                       /\ call.ret.kind = "raise"
                       /\ call.ret.msg # MsgMissing

\* Both timestamps have a field that is no integer; the error names start_time's.
C10_Witness ==
    /\ IsRange
    /\ call.arg = [start_time |-> PyStr(T_bad_input), end_time |-> PyStr(T_input_bad)]
    /\ call.ret = Raise("ValueError", MsgInvalidLiteral(Str(<<"b", "a", "d">>)))

============================================================================
